---- MODULE Spec2Model ----
(***************************************************************************)
(* A model of the volume-action surface of the digitalocean crate          *)
(* (src/api/volume_action.rs) and of the client entry points of            *)
(* src/lib.rs (DigitalOcean::new, DigitalOcean::execute).                  *)
(*                                                                         *)
(* Each caller owns at most one Request at a time (Rust ownership: the     *)
(* builder methods take `self` by value, so the previous value is gone).   *)
(* A Request is a record  [url, body, method, value]; the method and value *)
(* fields stand for the phantom type parameters of Request<A, V>.          *)
(***************************************************************************)
EXTENDS Integers, Sequences, FiniteSets, TLC

VARIABLES client, supplied, status, req, hist, phase, executing, roundTrips, carried, resp, result

vars ==
    <<client, supplied, status, req, hist, phase, executing, roundTrips, carried, resp, result>>

(***************************************************************************)
(* Bounds of the model.                                                    *)
(***************************************************************************)
NumCallers == 2          \* callers, each holding one Request slot
MaxDroplet == 2          \* droplet ids are 1..MaxDroplet
MaxSizeUnits == 1        \* sizes are 100, 200, ... 100*MaxSizeUnits
MaxActionMult == 2       \* action ids are 7, 14, ... 7*MaxActionMult
MaxPathLen == 6          \* no reinterpretation of a path longer than MaxPathLen - 2

Slots == 1..NumCallers
Droplets == 1..MaxDroplet
Sizes == {100 * k : k \in 1..MaxSizeUnits}
ActionIds == {7 * k : k \in 1..MaxActionMult}
VolumeIds == {"abc123"}
VolumeNames == {"vol-a"}
Tokens == {"tok-A", "tok-B"}

(***************************************************************************)
(* Constants of the source.                                                *)
(***************************************************************************)
VOLUMES_SEGMENT == "volumes"
VOLUME_ACTIONS_SEGMENT == "actions"
STATIC_URL_ERROR == "Staticly constructed DigitalOcean URL is malformed."

\* Url::parse("https://api.digitalocean.com/v2"): a hierarchical URL whose
\* path has the single segment "v2".
ROOT_URL ==
    [cannot_be_a_base |-> FALSE, host |-> "api.digitalocean.com", path |-> <<"v2">>]

(***************************************************************************)
(* JSON values (serde_json::Value), as far as the surface builds them.     *)
(***************************************************************************)
JsonNull == [kind |-> "Null"]
JsonObject(m) == [kind |-> "Object", map |-> m]

(***************************************************************************)
(* usize::to_string: the decimal digits of n, most significant first.      *)
(***************************************************************************)
DigitChar(d) ==
    CASE d = 0 -> "0" [] d = 1 -> "1" [] d = 2 -> "2" [] d = 3 -> "3" [] d = 4 -> "4"
      [] d = 5 -> "5" [] d = 6 -> "6" [] d = 7 -> "7" [] d = 8 -> "8" [] d = 9 -> "9"

RECURSIVE UsizeToString(_)
UsizeToString(n) ==
    IF n < 10 THEN DigitChar(n) ELSE UsizeToString(n \div 10) \o DigitChar(n % 10)

(***************************************************************************)
(* url.path_segments_mut(): Err for a cannot-be-a-base URL, and            *)
(* PathSegmentsMut::push: "." and ".." are skipped; a separator is written *)
(* before the segment unless the path is only the initial slash.  A path   *)
(* is the sequence of its segments; the path "/" is <<"">>.                *)
(***************************************************************************)
path_segments_mut_ok(url) == ~url.cannot_be_a_base

push(url, segment) ==
    IF segment \in {".", ".."} THEN url
    ELSE IF url.path = <<"">> THEN [url EXCEPT !.path = <<segment>>]
    ELSE [url EXCEPT !.path = Append(@, segment)]

(***************************************************************************)
(* Request<A, V> (request.rs).                                             *)
(***************************************************************************)
NoRequest == [none |-> TRUE]

Request_new(url, A, V) == [url |-> url, body |-> JsonNull, method |-> A, value |-> V]

\* set_body as a merge of the new payload's keys into the stored object.
set_body_merge(self, payload) ==
    IF self.body.kind = "Object" /\ payload.kind = "Object"
    THEN [self EXCEPT !.body = JsonObject(payload.map @@ self.body.map)]
    ELSE [self EXCEPT !.body = payload]

set_body(self, payload) == [self EXCEPT !.body = payload]

transmute(self, C, D) == [url |-> self.url, body |-> self.body, method |-> C, value |-> D]

\* The outcome of a builder operation: the Request it returns (with the
\* Request as it stood before the final transmute), or a panic.
Built(r, pre) == [ok |-> TRUE, req |-> r, pre |-> pre, panic |-> ""]
Panicked(msg) == [ok |-> FALSE, req |-> NoRequest, pre |-> NoRequest, panic |-> msg]

(***************************************************************************)
(* impl Volume (resource-level constructors).                              *)
(***************************************************************************)
Volume_attach(volume_name, droplet) ==
    IF ~path_segments_mut_ok(ROOT_URL) THEN Panicked(STATIC_URL_ERROR)
    ELSE LET url == push(ROOT_URL, VOLUMES_SEGMENT)
             r == set_body(Request_new(url, "Create", "Action"),
                           JsonObject([type |-> "attach",
                                       volume_name |-> volume_name,
                                       droplet_id |-> droplet]))
         IN Built(r, r)

Volume_detach(volume_name, droplet) ==
    IF ~path_segments_mut_ok(ROOT_URL) THEN Panicked(STATIC_URL_ERROR)
    ELSE LET url == push(ROOT_URL, VOLUMES_SEGMENT)
             r == set_body(Request_new(url, "Create", "Action"),
                           JsonObject([type |-> "detach",
                                       volume_name |-> volume_name,
                                       droplet_id |-> droplet]))
         IN Built(r, r)

\* Volume::get(id) (api/volume.rs): the Request that identifies one volume.
Volume_get(id) ==
    IF ~path_segments_mut_ok(ROOT_URL) THEN Panicked(STATIC_URL_ERROR)
    ELSE LET r == Request_new(push(push(ROOT_URL, VOLUMES_SEGMENT), id), "Get", "Volume")
         IN Built(r, r)

(***************************************************************************)
(* impl Request<Get, Volume> (chained operations).                         *)
(***************************************************************************)
\* The chained operations offered on every Request<Get, V>.
ChainEnabled_any_get(self) == self.method = "Get"

ChainEnabled(self) == self.method = "Get" /\ self.value = "Volume"

\* attach that skips the append when the URL takes no segments.
Request_attach_unchecked(self, droplet) ==
    LET url == IF path_segments_mut_ok(self.url)
               THEN push(self.url, VOLUME_ACTIONS_SEGMENT) ELSE self.url
        pre == set_body([self EXCEPT !.url = url],
                        JsonObject([type |-> "attach", droplet_id |-> droplet]))
    IN Built(transmute(pre, "Create", "Action"), pre)

Request_attach(self, droplet) ==
    IF ~path_segments_mut_ok(self.url) THEN Panicked(STATIC_URL_ERROR)
    ELSE LET pre == set_body([self EXCEPT !.url = push(@, VOLUME_ACTIONS_SEGMENT)],
                             JsonObject([type |-> "attach", droplet_id |-> droplet]))
         IN Built(transmute(pre, "Create", "Action"), pre)

\* detach with the payload type of attach.
Request_detach_attach_type(self, droplet) ==
    IF ~path_segments_mut_ok(self.url) THEN Panicked(STATIC_URL_ERROR)
    ELSE LET pre == set_body([self EXCEPT !.url = push(@, VOLUME_ACTIONS_SEGMENT)],
                             JsonObject([type |-> "attach", droplet_id |-> droplet]))
         IN Built(transmute(pre, "Create", "Action"), pre)

Request_detach(self, droplet) ==
    IF ~path_segments_mut_ok(self.url) THEN Panicked(STATIC_URL_ERROR)
    ELSE LET pre == set_body([self EXCEPT !.url = push(@, VOLUME_ACTIONS_SEGMENT)],
                             JsonObject([type |-> "detach", droplet_id |-> droplet]))
         IN Built(transmute(pre, "Create", "Action"), pre)

Request_resize(self, size) ==
    IF ~path_segments_mut_ok(self.url) THEN Panicked(STATIC_URL_ERROR)
    ELSE LET pre == set_body([self EXCEPT !.url = push(@, VOLUME_ACTIONS_SEGMENT)],
                             JsonObject([type |-> "resize", size_gigabytes |-> size]))
         IN Built(transmute(pre, "Create", "Action"), pre)

\* actions that appends the segment after the transmute.
Request_actions_push_after_transmute(self) ==
    IF ~path_segments_mut_ok(self.url) THEN Panicked(STATIC_URL_ERROR)
    ELSE LET r == transmute(self, "List", "Vec<Action>")
         IN Built([r EXCEPT !.url = push(@, VOLUME_ACTIONS_SEGMENT)], self)

Request_actions(self) ==
    IF ~path_segments_mut_ok(self.url) THEN Panicked(STATIC_URL_ERROR)
    ELSE LET pre == [self EXCEPT !.url = push(@, VOLUME_ACTIONS_SEGMENT)]
         IN Built(transmute(pre, "List", "Vec<Action>"), pre)

\* action that appends the id before the sub-collection name.
Request_action_id_first(self, id) ==
    IF ~path_segments_mut_ok(self.url) THEN Panicked(STATIC_URL_ERROR)
    ELSE LET pre == [self EXCEPT
                       !.url = push(push(@, UsizeToString(id)), VOLUME_ACTIONS_SEGMENT)]
         IN Built(transmute(pre, "Get", "Action"), pre)

\* action that also stores a payload, as the named operations do.
Request_action_sets_body(self, id) ==
    IF ~path_segments_mut_ok(self.url) THEN Panicked(STATIC_URL_ERROR)
    ELSE LET pre == set_body([self EXCEPT !.url = push(push(@, VOLUME_ACTIONS_SEGMENT),
                                                       UsizeToString(id))],
                             JsonObject([type |-> "action", id |-> id]))
         IN Built(transmute(pre, "Get", "Action"), pre)

Request_action(self, id) ==
    IF ~path_segments_mut_ok(self.url) THEN Panicked(STATIC_URL_ERROR)
    ELSE LET pre == [self EXCEPT
                       !.url = push(push(@, VOLUME_ACTIONS_SEGMENT), UsizeToString(id))]
         IN Built(transmute(pre, "Get", "Action"), pre)

(***************************************************************************)
(* The executor (Executable::execute, client.rs, error.rs) and the         *)
(* transport's responses.                                                  *)
(***************************************************************************)
TransportFault == [kind |-> "transport_fault"]
Http(code, payload) == [kind |-> "http", status |-> code, payload |-> payload]
ObjectPayload == [shape |-> "object"]
ArrayPayload == [shape |-> "array"]
ErrorPayload(id, message) == [shape |-> "error", id |-> id, message |-> message]
GarbagePayload == [shape |-> "garbage"]

Responses ==
    { TransportFault,
      Http(200, ObjectPayload),
      Http(200, ArrayPayload),
      Http(404, ErrorPayload("not_found", "The resource could not be found.")),
      Http(500, GarbagePayload) }

Ok(v) == [ok |-> TRUE, value |-> v]
Err(e) == [ok |-> FALSE, error |-> e]

Verb(method) ==
    CASE method \in {"List", "Get"} -> "GET"
      [] method = "Create" -> "POST"
      [] method = "Update" -> "PUT"
      [] method = "Delete" -> "DELETE"

IsSuccess(code) == code \in 200..299

ExpectedShape(value) == IF value \in {"Vec<Action>", "Vec<Volume>"} THEN "array" ELSE "object"

\* The one transport call of an execution.
TransportCall(request, do) ==
    [verb |-> Verb(request.method), url |-> request.url,
     auth |-> do.token, body |-> request.body]

\* What the executor makes of the transport's response.
HandleResponse(request, response) ==
    IF response.kind = "transport_fault" THEN Err([kind |-> "Transport"])
    ELSE IF IsSuccess(response.status)
         THEN IF response.payload.shape = ExpectedShape(request.value)
              THEN Ok([shape |-> request.value, data |-> response.payload])
              ELSE Err([kind |-> "Serialization"])
         ELSE IF response.payload.shape = "error"
              THEN Err([kind |-> "Api", id |-> response.payload.id,
                        message |-> response.payload.message])
              ELSE Err([kind |-> "Api", status |-> response.status,
                        raw |-> response.payload])

Executable_execute(request, do, response) ==
    [calls |-> <<TransportCall(request, do)>>,
     result |-> HandleResponse(request, response)]

(***************************************************************************)
(* struct DigitalOcean (lib.rs).                                           *)
(***************************************************************************)
NoClient == [none |-> TRUE]
NoToken == ""

\* new that drops the caller's token.
DigitalOcean_new_empty_token(token, client_ok) ==
    IF client_ok THEN Ok([client |-> "transport", token |-> ""])
    ELSE Err([kind |-> "Transport"])

\* client_ok: whether client::Client::new() succeeded (the `?` of line 142).
DigitalOcean_new(token, client_ok) ==
    IF client_ok THEN Ok([client |-> "transport", token |-> token])
    ELSE Err([kind |-> "Transport"])

\* execute that repeats the call when the first one failed.
DigitalOcean_execute_retry(self, request, response) ==
    LET first == Executable_execute(request, self, response)
    IN IF first.result.ok THEN first
       ELSE [calls |-> first.calls \o Executable_execute(request, self, response).calls,
             result |-> first.result]

\* execute that hands the caller an empty value when the call failed.
DigitalOcean_execute_swallow(self, request, response) ==
    LET out == Executable_execute(request, self, response)
    IN IF out.result.ok THEN out
       ELSE [calls |-> out.calls,
             result |-> Ok([shape |-> request.value, data |-> [shape |-> "object"]])]

DigitalOcean_execute(self, request, response) ==
    Executable_execute(request, self, response)

(***************************************************************************)
(* State.                                                                  *)
(*   client, supplied  the client and the token last given to new          *)
(*   status[i]         "none" | "built" | "moved" | "aborted"              *)
(*   req[i]            the Request caller i owns                           *)
(*   hist[i]           the builder operation that produced req[i]: its     *)
(*                     name, the one before it, its input Request and      *)
(*                     arguments, the Request before its final transmute,  *)
(*                     whether the URL descends from ROOT_URL, the panic   *)
(*   phase[i]          "idle" | "inflight" | "done"                        *)
(*   executing[i]      the Request moved into an execute still running     *)
(*   roundTrips[i]     the number of transport calls made for caller i     *)
(*   carried[i]        the credentials those calls carried                 *)
(*   resp[i]           the transport's response                            *)
(*   result[i]         what execute returned                               *)
(***************************************************************************)
NoHist == [op |-> "none"]
NoResponse == [kind |-> "none"]
NoResult == [none |-> TRUE]

Init ==
    /\ client = NoClient
    /\ supplied = NoToken
    /\ status = [i \in Slots |-> "none"]
    /\ req = [i \in Slots |-> NoRequest]
    /\ hist = [i \in Slots |-> NoHist]
    /\ phase = [i \in Slots |-> "idle"]
    /\ executing = [i \in Slots |-> NoRequest]
    /\ roundTrips = [i \in Slots |-> 0]
    /\ carried = [i \in Slots |-> {}]
    /\ resp = [i \in Slots |-> NoResponse]
    /\ result = [i \in Slots |-> NoResult]

New(token, client_ok) ==
    /\ client = NoClient
    /\ LET r == DigitalOcean_new(token, client_ok)
       IN client' = IF r.ok THEN r.value ELSE NoClient
    /\ supplied' = token
    /\ UNCHANGED <<status, req, hist, phase, executing, roundTrips, carried, resp, result>>

\* Whether the operation before was a set_body.
PrevOp(h) == IF h.op = "set_body" THEN "set_body" ELSE "other"

\* Caller i's slot after a builder operation: the returned Request, or the
\* abort of the caller on a panic.
Returns(i, op, in, args, rooted, out) ==
    /\ status' = [status EXCEPT ![i] = IF out.ok THEN "built" ELSE "aborted"]
    /\ req' = [req EXCEPT ![i] = out.req]
    /\ hist' = [hist EXCEPT ![i] = [op |-> op, prev |-> PrevOp(hist[i]), in |-> in,
                                    pre |-> out.pre, args |-> args,
                                    rooted |-> rooted, panic |-> out.panic]]
    /\ UNCHANGED <<client, supplied, phase, executing, roundTrips, carried, resp, result>>

VolumeGet(i, id) ==
    /\ status[i] = "none"
    /\ Returns(i, "Volume::get", NoRequest, [id |-> id], TRUE, Volume_get(id))

VolumeAttach(i, volume_name, droplet) ==
    /\ status[i] = "none"
    /\ Returns(i, "Volume::attach", NoRequest,
               [volume_name |-> volume_name, droplet |-> droplet], TRUE,
               Volume_attach(volume_name, droplet))

VolumeDetach(i, volume_name, droplet) ==
    /\ status[i] = "none"
    /\ Returns(i, "Volume::detach", NoRequest,
               [volume_name |-> volume_name, droplet |-> droplet], TRUE,
               Volume_detach(volume_name, droplet))

Attach(i, droplet) ==
    /\ status[i] = "built"
    /\ ChainEnabled(req[i])
    /\ Returns(i, "attach", req[i], [droplet |-> droplet], hist[i].rooted,
               Request_attach(req[i], droplet))

Detach(i, droplet) ==
    /\ status[i] = "built"
    /\ ChainEnabled(req[i])
    /\ Returns(i, "detach", req[i], [droplet |-> droplet], hist[i].rooted,
               Request_detach(req[i], droplet))

Resize(i, size) ==
    /\ status[i] = "built"
    /\ ChainEnabled(req[i])
    /\ Returns(i, "resize", req[i], [size |-> size], hist[i].rooted,
               Request_resize(req[i], size))

Actions(i) ==
    /\ status[i] = "built"
    /\ ChainEnabled(req[i])
    /\ Returns(i, "actions", req[i], [none |-> TRUE], hist[i].rooted,
               Request_actions(req[i]))

Action(i, id) ==
    /\ status[i] = "built"
    /\ ChainEnabled(req[i])
    /\ Returns(i, "action", req[i], [id |-> id], hist[i].rooted,
               Request_action(req[i], id))

\* Caller i enters the blocking execute: the Request is moved into the call.
StartExecute(i) ==
    /\ status[i] = "built"
    /\ client # NoClient
    /\ status' = [status EXCEPT ![i] = "moved"]
    /\ executing' = [executing EXCEPT ![i] = req[i]]
    /\ req' = [req EXCEPT ![i] = NoRequest]
    /\ hist' = [hist EXCEPT ![i] = NoHist]
    /\ phase' = [phase EXCEPT ![i] = "inflight"]
    /\ UNCHANGED <<client, supplied, roundTrips, carried, resp, result>>

\* The blocking execute of caller i returns, the transport having answered
\* with response.
FinishExecute(i, response) ==
    /\ phase[i] = "inflight"
    /\ LET out == DigitalOcean_execute(client, executing[i], response)
       IN /\ roundTrips' = [roundTrips EXCEPT ![i] = @ + Len(out.calls)]
          /\ carried' = [carried EXCEPT
                           ![i] = @ \cup {out.calls[k].auth : k \in 1..Len(out.calls)}]
          /\ result' = [result EXCEPT ![i] = out.result]
    /\ executing' = [executing EXCEPT ![i] = NoRequest]
    /\ resp' = [resp EXCEPT ![i] = response]
    /\ phase' = [phase EXCEPT ![i] = "done"]
    /\ UNCHANGED <<client, supplied, status, req, hist>>

Next ==
    \/ \E t \in Tokens, ok \in BOOLEAN : New(t, ok)
    \/ \E i \in Slots, id \in VolumeIds : VolumeGet(i, id)
    \/ \E i \in Slots, n \in VolumeNames, d \in Droplets : VolumeAttach(i, n, d)
    \/ \E i \in Slots, n \in VolumeNames, d \in Droplets : VolumeDetach(i, n, d)
    \/ \E i \in Slots, d \in Droplets : Attach(i, d)
    \/ \E i \in Slots, d \in Droplets : Detach(i, d)
    \/ \E i \in Slots, s \in Sizes : Resize(i, s)
    \/ \E i \in Slots : Actions(i)
    \/ \E i \in Slots, id \in ActionIds : Action(i, id)
    \/ \E i \in Slots : StartExecute(i)
    \/ \E i \in Slots, r \in Responses : FinishExecute(i, r)

Spec == Init /\ [][Next]_vars

(***************************************************************************)
(* The builder functions over every value of their input type: caller 1    *)
(* starts with any Request of a bounded set (any URL, body and             *)
(* Method/Value pair), and set_body and transmute are applied directly.    *)
(***************************************************************************)
TagPairs ==
    { <<"Get", "Volume">>, <<"Create", "Action">>, <<"List", "Vec<Action>">>,
      <<"Get", "Action">>, <<"List", "Vec<Volume>">>, <<"Update", "Volume">>,
      <<"Delete", "()">> }

SamplePayloads ==
    { JsonNull,
      JsonObject([type |-> "resize", size_gigabytes |-> 100]),
      JsonObject([type |-> "attach", volume_name |-> "vol-a", droplet_id |-> 1]) }

SampleUrls ==
    { ROOT_URL,
      [cannot_be_a_base |-> FALSE, host |-> "api.digitalocean.com",
       path |-> <<"v2", "volumes", "abc123">>],
      [cannot_be_a_base |-> TRUE, host |-> "", path |-> <<"user@example.com">>] }

AnyRequest ==
    { [url |-> u, body |-> b, method |-> t[1], value |-> t[2]] :
        u \in SampleUrls, b \in SamplePayloads, t \in TagPairs }

Given(r) ==
    [op |-> "given", prev |-> "other", in |-> NoRequest, pre |-> r, args |-> [none |-> TRUE],
     rooted |-> FALSE, panic |-> ""]

InitBuilder ==
    /\ client = NoClient
    /\ supplied = NoToken
    /\ \/ /\ status = [i \in Slots |-> "none"]
          /\ req = [i \in Slots |-> NoRequest]
          /\ hist = [i \in Slots |-> NoHist]
       \/ \E r \in AnyRequest :
            /\ status = [i \in Slots |-> IF i = 1 THEN "built" ELSE "none"]
            /\ req = [i \in Slots |-> IF i = 1 THEN r ELSE NoRequest]
            /\ hist = [i \in Slots |-> IF i = 1 THEN Given(r) ELSE NoHist]
    /\ phase = [i \in Slots |-> "idle"]
    /\ executing = [i \in Slots |-> NoRequest]
    /\ roundTrips = [i \in Slots |-> 0]
    /\ carried = [i \in Slots |-> {}]
    /\ resp = [i \in Slots |-> NoResponse]
    /\ result = [i \in Slots |-> NoResult]

SetBody(i, payload) ==
    /\ status[i] = "built"
    /\ LET r == set_body(req[i], payload)
       IN Returns(i, "set_body", req[i], [payload |-> payload], hist[i].rooted, Built(r, r))

Transmute(i, C, D) ==
    /\ status[i] = "built"
    /\ Len(req[i].url.path) + 2 <= MaxPathLen
    /\ Returns(i, "transmute", req[i], [method |-> C, value |-> D], hist[i].rooted,
               Built(transmute(req[i], C, D), req[i]))

NextBuilder ==
    \/ \E t \in Tokens, ok \in BOOLEAN : New(t, ok)
    \/ \E id \in VolumeIds : VolumeGet(1, id)
    \/ \E n \in VolumeNames, d \in Droplets : VolumeAttach(1, n, d)
    \/ \E n \in VolumeNames, d \in Droplets : VolumeDetach(1, n, d)
    \/ \E d \in Droplets : Attach(1, d)
    \/ \E d \in Droplets : Detach(1, d)
    \/ \E s \in Sizes : Resize(1, s)
    \/ Actions(1)
    \/ \E id \in ActionIds : Action(1, id)
    \/ \E p \in SamplePayloads : SetBody(1, p)
    \/ \E t \in TagPairs : Transmute(1, t[1], t[2])
    \/ StartExecute(1)
    \/ \E r \in Responses : FinishExecute(1, r)

SpecBuilder == InitBuilder /\ [][NextBuilder]_vars

(***************************************************************************)
(* Vocabulary of the properties.                                           *)
(***************************************************************************)
ConstructorOps == {"Volume::attach", "Volume::detach"}
ChainOps == {"attach", "detach", "resize", "actions", "action"}
NamedOps == {"Volume::attach", "Volume::detach", "attach", "detach", "resize"}

TableStates ==
    { <<"Get", "Volume">>, <<"Create", "Action">>, <<"List", "Vec<Action>">>,
      <<"Get", "Action">> }

Tag(r) == <<r.method, r.value>>

BuiltBy(i, ops) == status[i] = "built" /\ hist[i].op \in ops

\* Some chained operation can be applied by caller i.
ChainOpEnabled(i) ==
    \/ \E d \in Droplets : ENABLED Attach(i, d)
    \/ \E d \in Droplets : ENABLED Detach(i, d)
    \/ \E sz \in Sizes : ENABLED Resize(i, sz)
    \/ ENABLED Actions(i)
    \/ \E id \in ActionIds : ENABLED Action(i, id)

CountOf(path, segment) == Cardinality({k \in 1..Len(path) : path[k] = segment})

(***************************************************************************)
(* C1.  The URL path built by every operation of the volume-action surface *)
(* is the input path (the root path "v2" for the resource-level            *)
(* constructors) followed by exactly the documented segments in order:     *)
(* "volumes" for Volume::attach/detach, "actions" for attach, detach,      *)
(* resize and actions, "actions" then the decimal id for action(id); no    *)
(* segment is empty (no duplicate or trailing separator), and              *)
(* Volume::get("abc123").action(7) has the path v2/volumes/abc123/actions/7.*)
(***************************************************************************)
C1_DocumentedSegments(h) ==
    CASE h.op \in ConstructorOps -> <<"volumes">>
      [] h.op \in {"attach", "detach", "resize", "actions"} -> <<"actions">>
      [] h.op = "action" -> <<"actions", ToString(h.args.id)>>

C1_InputPath(h) == IF h.op \in ConstructorOps THEN <<"v2">> ELSE h.in.url.path

C1_PathIsDocumentedConcatenation ==
    \A i \in Slots :
        BuiltBy(i, ConstructorOps \cup ChainOps) =>
            /\ req[i].url.path = C1_InputPath(hist[i]) \o C1_DocumentedSegments(hist[i])
            /\ \A k \in 1..Len(req[i].url.path) : req[i].url.path[k] # ""
            /\ req[i].url.host = "api.digitalocean.com"
            /\ (hist[i].op = "action" /\ hist[i].args.id = 7
                  /\ hist[i].in.url.path = <<"v2", "volumes", "abc123">>)
               => req[i].url.path = <<"v2", "volumes", "abc123", "actions", "7">>

C1_Witness ==
    \E i \in Slots :
        /\ BuiltBy(i, {"action"})
        /\ hist[i].args.id = 14
        /\ req[i].url.path = <<"v2", "volumes", "abc123", "actions", "14">>

(***************************************************************************)
(* C2.  transmute changes only the Method/Value tags: the transmuted       *)
(* Request has the URL and the body of the Request it was applied to, and  *)
(* the Request every chained operation returns has the URL and body that   *)
(* were stored just before its final transmute.                            *)
(***************************************************************************)
C2_TransmutePreservesData ==
    \A i \in Slots :
        /\ BuiltBy(i, {"transmute"}) =>
              /\ req[i].url = hist[i].in.url
              /\ req[i].body = hist[i].in.body
              /\ Tag(req[i]) = <<hist[i].args.method, hist[i].args.value>>
        /\ BuiltBy(i, ChainOps) =>
              /\ req[i].url = hist[i].pre.url
              /\ req[i].body = hist[i].pre.body

C2_Witness ==
    \E i \in Slots :
        /\ BuiltBy(i, {"transmute"})
        /\ hist[i].in.body # JsonNull
        /\ Tag(req[i]) # Tag(hist[i].in)
        /\ Len(req[i].url.path) > 1

(***************************************************************************)
(* C3.  set_body overwrites and never merges: after set_body(P) the body   *)
(* is exactly P whatever body was stored before (so set_body(P) then       *)
(* set_body(Q) leaves Q, and repeating set_body(P) leaves P), and the URL  *)
(* and the tags are unchanged.                                             *)
(***************************************************************************)
C3_SetBodyOverwrites ==
    \A i \in Slots :
        BuiltBy(i, {"set_body"}) =>
            /\ req[i].body = hist[i].args.payload
            /\ req[i].url = hist[i].in.url
            /\ Tag(req[i]) = Tag(hist[i].in)
            /\ hist[i].in.body = hist[i].args.payload => req[i] = hist[i].in

C3_Witness ==
    \E i \in Slots :
        /\ BuiltBy(i, {"set_body"})
        /\ hist[i].prev = "set_body"
        /\ hist[i].in.body.kind = "Object"
        /\ hist[i].args.payload.kind = "Object"
        /\ hist[i].in.body # hist[i].args.payload
        /\ req[i].body = hist[i].args.payload

(***************************************************************************)
(* C4.  Every named operation yields a Create->Action Request whose body   *)
(* is exactly the documented payload, whatever body the input carried:     *)
(* resize gives {type: resize, size_gigabytes}, chained attach/detach give *)
(* {type, droplet_id} without a volume_name key, Volume::attach/detach     *)
(* give {type, volume_name, droplet_id}.                                   *)
(***************************************************************************)
C4_DocumentedBody(h) ==
    CASE h.op = "Volume::attach" ->
            [type |-> "attach", volume_name |-> h.args.volume_name,
             droplet_id |-> h.args.droplet]
      [] h.op = "Volume::detach" ->
            [type |-> "detach", volume_name |-> h.args.volume_name,
             droplet_id |-> h.args.droplet]
      [] h.op = "attach" -> [type |-> "attach", droplet_id |-> h.args.droplet]
      [] h.op = "detach" -> [type |-> "detach", droplet_id |-> h.args.droplet]
      [] h.op = "resize" -> [type |-> "resize", size_gigabytes |-> h.args.size]

C4_NamedOperationBody ==
    \A i \in Slots :
        BuiltBy(i, NamedOps) =>
            /\ Tag(req[i]) = <<"Create", "Action">>
            /\ req[i].body.kind = "Object"
            /\ req[i].body.map = C4_DocumentedBody(hist[i])
            /\ hist[i].op \in {"attach", "detach"} =>
                  DOMAIN req[i].body.map = {"type", "droplet_id"}

C4_Witness ==
    \E i \in Slots :
        /\ BuiltBy(i, {"resize"})
        /\ hist[i].in.body = JsonObject([type |-> "attach", volume_name |-> "vol-a",
                                         droplet_id |-> 1])
        /\ hist[i].args.size = 100
        /\ req[i].body.map = [type |-> "resize", size_gigabytes |-> 100]
        /\ req[i].url.path = <<"v2", "volumes", "abc123", "actions">>

(***************************************************************************)
(* C5.  The chained operations are enabled only on a Get->Volume Request;  *)
(* they are not enabled on List->Vec<Action>, Get->Action or Create->Action.*)
(* Hence every Request built through the surface has a tag of the          *)
(* operation table, and "actions" occurs in its path at most once and only *)
(* right after volumes/<id>.                                               *)
(***************************************************************************)
C5_ChainsOnlyOnGetVolume ==
    \A i \in Slots :
        /\ BuiltBy(i, ChainOps) => Tag(hist[i].in) = <<"Get", "Volume">>
        /\ status[i] = "built" =>
              /\ Tag(req[i]) \in TableStates
              /\ Tag(req[i]) # <<"Get", "Volume">> => ~ChainOpEnabled(i)
              /\ CountOf(req[i].url.path, "actions") <= 1
              /\ CountOf(req[i].url.path, "actions") = 1 =>
                    /\ Len(req[i].url.path) >= 4
                    /\ req[i].url.path[2] = "volumes"
                    /\ req[i].url.path[3] \in VolumeIds
                    /\ req[i].url.path[4] = "actions"

C5_Witness ==
    \E i \in Slots :
        /\ BuiltBy(i, {"actions"})
        /\ Tag(req[i]) = <<"List", "Vec<Action>">>
        /\ ~ChainOpEnabled(i)

(***************************************************************************)
(* C6.  A built Request is executed at most once and an execution makes    *)
(* exactly one transport call, never a second one, whether the call        *)
(* succeeds or fails; execute consumes the Request, which can be neither   *)
(* modified nor executed again.                                            *)
(***************************************************************************)
C6_OneRoundTripPerExecution ==
    \A i \in Slots :
        /\ roundTrips[i] <= 1
        /\ phase[i] = "done" <=> roundTrips[i] = 1
        /\ phase[i] # "idle" =>
              /\ status[i] = "moved"
              /\ req[i] = NoRequest
              /\ ~ChainOpEnabled(i)
              /\ ~ENABLED StartExecute(i)

C6_Witness ==
    \E i \in Slots :
        /\ phase[i] = "done"
        /\ ~result[i].ok
        /\ roundTrips[i] = 1

(***************************************************************************)
(* C7.  Execution never turns a failure into a success value: a            *)
(* non-success status gives an API-level fault (with the provider's id and *)
(* message when the payload has them, the raw status and body otherwise),  *)
(* a transport failure gives a transport fault, an undecodable success     *)
(* body gives a serialization fault, and each is the error result of       *)
(* execute.                                                                *)
(***************************************************************************)
C7_FaultsReachTheCaller ==
    \A i \in Slots :
        phase[i] = "done" =>
            /\ resp[i].kind = "transport_fault" =>
                  ~result[i].ok /\ result[i].error.kind = "Transport"
            /\ (resp[i].kind = "http" /\ resp[i].status \notin 200..299) =>
                  /\ ~result[i].ok
                  /\ result[i].error.kind = "Api"
                  /\ resp[i].payload.shape = "error" =>
                        /\ result[i].error.id = resp[i].payload.id
                        /\ result[i].error.message = resp[i].payload.message
            /\ result[i].ok =>
                  /\ resp[i].kind = "http"
                  /\ resp[i].status \in 200..299
                  /\ result[i].value.data = resp[i].payload
            /\ (resp[i].kind = "http" /\ resp[i].status \in 200..299 /\ ~result[i].ok) =>
                  result[i].error.kind = "Serialization"

C7_Witness ==
    \E i \in Slots :
        /\ phase[i] = "done"
        /\ resp[i].kind = "http"
        /\ resp[i].status = 404
        /\ result[i] = Err([kind |-> "Api", id |-> "not_found",
                            message |-> "The resource could not be found."])

(***************************************************************************)
(* C8.  The client is read-only shared state: its token stays the token    *)
(* given to DigitalOcean::new, every transport call carries exactly that   *)
(* token, and when an execution returns, its outcome is determined by its  *)
(* own Request and its own response while every other caller's outcome is  *)
(* left as it was.                                                         *)
(***************************************************************************)
C8_ClientState ==
    /\ client # NoClient => client.token = supplied /\ supplied \in Tokens
    /\ \A i \in Slots :
          /\ carried[i] \subseteq {supplied}
          /\ phase[i] = "done" => carried[i] = {supplied} /\ client # NoClient

C8_Step ==
    /\ client # NoClient => client' = client
    /\ \A i \in Slots :
          (phase[i] = "inflight" /\ phase'[i] = "done") =>
              /\ result'[i] = HandleResponse(executing[i], resp'[i])
              /\ \A j \in Slots \ {i} :
                    /\ result'[j] = result[j]
                    /\ roundTrips'[j] = roundTrips[j]
                    /\ executing'[j] = executing[j]

C8_ClientIsReadOnly == [][C8_ClientState /\ C8_ClientState' /\ C8_Step]_vars

C8_Witness ==
    \E i, j \in Slots :
        /\ i # j
        /\ phase[i] = "done"
        /\ phase[j] = "done"
        /\ result[i].ok
        /\ ~result[j].ok
        /\ carried[i] = {supplied}
        /\ carried[j] = {supplied}

(***************************************************************************)
(* C9.  Path-segment append fails fast: an operation applied to a Request  *)
(* whose URL cannot take path segments aborts with the static-URL error,   *)
(* returns no Request, and no transport call is ever made for it; a        *)
(* Request whose URL descends from ROOT_URL never aborts.                  *)
(***************************************************************************)
C9_AppendFailsFast ==
    \A i \in Slots :
        /\ status[i] = "aborted" =>
              /\ hist[i].panic = "Staticly constructed DigitalOcean URL is malformed."
              /\ hist[i].in.url.cannot_be_a_base
              /\ req[i] = NoRequest
              /\ phase[i] = "idle"
              /\ roundTrips[i] = 0
              /\ ~ENABLED StartExecute(i)
              /\ ~ChainOpEnabled(i)
        /\ (status[i] \in {"built", "aborted"} /\ hist[i].op \in ChainOps
              /\ hist[i].in.url.cannot_be_a_base) => status[i] = "aborted"
        /\ (hist[i].op # "none" /\ hist[i].rooted) =>
              /\ status[i] = "built"
              /\ ~req[i].url.cannot_be_a_base

C9_Witness ==
    \E i \in Slots :
        /\ status[i] = "aborted"
        /\ hist[i].op \in ChainOps
        /\ client # NoClient
        /\ roundTrips[i] = 0

(***************************************************************************)
(* C10.  On every Request built through the surface a body is present      *)
(* exactly when the tag is Create.  actions() and action(id) pass the      *)
(* input body through unchanged, and the Get->Volume Request they are      *)
(* applied to has none, so their List->Vec<Action> and Get->Action         *)
(* Requests have none.                                                     *)
(***************************************************************************)
C10_BodyIffCreate ==
    \A i \in Slots :
        /\ status[i] = "built" => (req[i].body # JsonNull <=> req[i].method = "Create")
        /\ BuiltBy(i, {"actions", "action"}) =>
              /\ req[i].body = hist[i].in.body
              /\ hist[i].in.body = JsonNull
              /\ Tag(req[i]) =
                    IF hist[i].op = "actions" THEN <<"List", "Vec<Action>">>
                    ELSE <<"Get", "Action">>

C10_Witness ==
    \E i \in Slots :
        /\ BuiltBy(i, {"action"})
        /\ Tag(req[i]) = <<"Get", "Action">>
        /\ req[i].body = JsonNull

====
